---- MODULE Spec2Model ----
(***************************************************************************)
(* A model of the document-to-tidy-table pipeline:                         *)
(*   - the transform2tidy orchestrator (run_transform_pipeline) and its    *)
(*     stages, over a shared artifact file tree, with two interleaved runs *)
(*   - the PDF splitter (convert_pdf_and_process), the Marker runner and   *)
(*     the GPU resource gate.                                              *)
(* File names are sequences of one-character strings, so that stem/suffix  *)
(* handling and the table-number regular expression are computed, not      *)
(* assumed.                                                                *)
(***************************************************************************)
EXTENDS Integers, Sequences, FiniteSets, TLC

\* ------------------------------------------------------------------ bounds

\* Highest table id the extractor has written for the document.
MaxTable == 2

\* Most pages a PDF has.
MaxPages == 2

\* Most lines nvidia-smi prints for one query.
MaxUnits == 2

\* Candidates the Marker runner's output discovery comes across.
MaxCand == 2

\* Flags in MARKER_FLAGS.
MaxFlags == 3

\* Most lines of a document the table extractor is given line by line, and
\* most blocks of one it is given block by block.
MaxLines == 3
MaxBlocks == 4

\* Most pieces of a prompt template.
MaxPieces == 3

\* ------------------------------------------------------- names and paths

S_table == <<"t", "a", "b", "l", "e">>
S_table_ == <<"t", "a", "b", "l", "e", "_">>
S_profile == <<"_", "p", "r", "o", "f", "i", "l", "e">>
S_prompt1_table == <<"p", "r", "o", "m", "p", "t", "1", "_", "t", "a", "b", "l", "e">>
S_prompt2_table == <<"p", "r", "o", "m", "p", "t", "2", "_", "t", "a", "b", "l", "e">>
S_prompt3_py == <<"p", "r", "o", "m", "p", "t", "3", "_", "p", "y">>
S_cleaned_ == <<"c", "l", "e", "a", "n", "e", "d", "_">>
S_log_ == <<"l", "o", "g", "_">>
S_csv == <<".", "c", "s", "v">>
S_json == <<".", "j", "s", "o", "n">>
S_md == <<".", "m", "d">>
S_py == <<".", "p", "y">>

Digits == <<"0", "1", "2", "3", "4", "5", "6", "7", "8", "9">>

IsDigit(c) == \E i \in 1..10 : Digits[i] = c

DigitVal(c) == (CHOOSE i \in 1..10 : Digits[i] = c) - 1

\* str(n) of a natural number
RECURSIVE ToDigits(_)
ToDigits(n) ==
    IF n < 10 THEN <<Digits[n + 1]>>
    ELSE ToDigits(n \div 10) \o <<Digits[(n % 10) + 1]>>

\* int(s) of a digit string
RECURSIVE DigitsValue(_)
DigitsValue(s) ==
    IF s = <<>> THEN 0
    ELSE 10 * DigitsValue(SubSeq(s, 1, Len(s) - 1)) + DigitVal(s[Len(s)])

\* Index of the last "." of a name, 0 when there is none (str.rfind).
RECURSIVE RFindDot(_, _)
RFindDot(name, i) ==
    IF i = 0 THEN 0
    ELSE IF name[i] = "." THEN i
    ELSE RFindDot(name, i - 1)

\* pathlib's Path.stem: the name without its last suffix; a leading or a
\* trailing dot starts no suffix.
Stem(name) ==
    LET i == RFindDot(name, Len(name))
    IN IF 1 < i /\ i < Len(name) THEN SubSeq(name, 1, i - 1) ELSE name

\* pathlib's Path.suffix
Suffix(name) ==
    LET i == RFindDot(name, Len(name))
    IN IF 1 < i /\ i < Len(name) THEN SubSeq(name, i, Len(name)) ELSE <<>>

\* A file of the artifact tree: <root directory>/<doc>/<name>.
Path(dir, doc, name) == [dir |-> dir, doc |-> doc, name |-> name]

EACH_TABLE_DIR == "each_table"
PROFILE_RAW_DF_DIR == "profile_raw_df"
PROMPT1_PROFILE_DIR == "prompt1_profile"
PROMPT2_PROMPT1_DIR == "prompt2_prompt1"
PROMPT3_PROMPT2_DIR == "prompt3_prompt2"
CLEANED_DATA_DIR == "cleaned_data"

\* The document whose tables are processed, and a document with no tables.
Doc == "docA"
NoDoc == "ghost"

\* Name of the CSV save_tables_as_csv writes for the idx-th table.
TableCsvName(idx) == S_table_ \o ToDigits(idx) \o S_csv

\* The table ids a caller supplies: the stems the extraction route reports.
TableId(n) == S_table_ \o ToDigits(n)

\* ---------------------------------------------- table number of a file name

\* re.search(r"table(\d+)", stem): does the pattern match starting at i?
MatchAt(s, i) ==
    /\ i + 5 <= Len(s)
    /\ SubSeq(s, i, i + 4) = S_table
    /\ IsDigit(s[i + 5])

\* End of the greedy run of digits that starts at j.
RECURSIVE DigitRunEnd(_, _)
DigitRunEnd(s, j) ==
    IF j + 1 <= Len(s) /\ IsDigit(s[j + 1]) THEN DigitRunEnd(s, j + 1) ELSE j

NoMatch == -1

\* int(match.group(1)) of the leftmost match, NoMatch when there is none.
TableNumSearch(s) ==
    IF \E i \in 1..Len(s) : MatchAt(s, i)
    THEN LET i == CHOOSE k \in 1..Len(s) :
                    MatchAt(s, k) /\ \A j \in 1..(k - 1) : ~MatchAt(s, j)
         IN DigitsValue(SubSeq(s, i + 5, DigitRunEnd(s, i + 5)))
    ELSE NoMatch

\* table_num as the prompt stages compute it: the fallback is the position in
\* the result list, overridden by the number found in the file stem.
TableNum(stem, nResults) ==
    IF TableNumSearch(stem) # NoMatch THEN TableNumSearch(stem) ELSE nResults + 1


\* ------------------------------------------------------------ state

VARIABLES
    files,          \* the artifact tree: the set of files that exist
    pc,             \* per run: the orchestrator's position
    csvPath,        \* per run: csv_path, <<>> before resolution
    profilePaths,   \* per run: profile_paths
    prompt1Paths,   \* per run: prompt1_paths
    prompt2Paths,   \* per run: prompt2_paths
    prompt3Paths,   \* per run: prompt3_paths
    cleanedPaths,   \* per run: cleaned_paths
    outcome,        \* per run: how run_transform_pipeline ended
    trace,          \* per run: the stages started, in order (history)
    stageResult,    \* per run and stage: what the stage yielded (history)
    llmCalls,       \* per run and stage: generate_content calls (history)
    written,        \* per run: the files the run wrote (history)
    execInfo        \* per run: what run_cleaning_script was given and did (history)

pipeVars == <<files, pc, csvPath, profilePaths, prompt1Paths, prompt2Paths,
              prompt3Paths, cleanedPaths, outcome, trace, stageResult,
              llmCalls, written, execInfo>>

VARIABLES
    cpc,            \* position in convert_pdf_and_process
    nPages,         \* page count of the PDF
    keep,           \* keep_images
    images,         \* pages whose chunk image exists on disk
    imagePaths,     \* the local image_paths list (page numbers)
    idx,            \* the loop's current page
    contents,       \* the local contents list
    combined,       \* the persisted combined document, <<>> if none
    retCount,       \* the returned chunk count
    cerror,         \* what made convert_pdf_and_process raise
    gatePc,         \* position in wait_for_gpu_ready
    elapsed,        \* time.time() - start
    polls,          \* _gpu_state_ok calls of this wait (history)
    sleeps,         \* time.sleep calls of this wait (history)
    lastRaw,        \* the last nvidia-smi answer (history)
    lastOk,         \* what _gpu_state_ok made of it (history)
    firstEmpty,     \* the wait's first poll saw no unit (history)
    produced,       \* pages whose chunk image the renderer wrote (history)
    unlinkFailed,   \* images whose unlink raised in the cleanup (history)
    submitted,      \* pages handed to _process_image_with_marker (history)
    launched        \* pages for which the Marker executable was run (history)

convVars == <<cpc, nPages, keep, images, imagePaths, idx, contents, combined,
              retCount, cerror, gatePc, elapsed, polls, sleeps, lastRaw, lastOk,
              firstEmpty, produced, unlinkFailed, submitted, launched>>

\* What the orchestrator's actions leave alone, and the splitter's.
\* One call of run_marker_for_chunk: what it met (mIn) and how it ended (mOut).
VARIABLES mIn, mOut

markerVars == <<mIn, mOut>>

\* One call of TableExtractor.extract.
VARIABLES
    exPc,           \* "idle" before the first call, "done" after a call
    mdLines,        \* content.split("\n") of the document
    rowFlags,       \* per line, whether the loop took it for a table row (history)
    dfs,            \* the tables returned
    created,        \* the CSV files written, in order
    tableDir        \* the files of the document's table directory

extractVars == <<exPc, mdLines, rowFlags, dfs, created, tableDir>>

\* One call of render_prompt: its arguments (rIn) and how it ended (rOut).
VARIABLES rIn, rOut

renderVars == <<rIn, rOut>>

\* The start of one run_transform_pipeline call on a table directory of any
\* content, with an id in any form.
VARIABLES
    rsPc,           \* "idle", "resolved", "failed", "staged"
    rsFs,           \* the files of the table directories
    rsReq,          \* the arguments doc_name and table_id
    rsOut,          \* what _resolve_table_csv returned, <<>> if it raised
    rsErr,          \* the exception leaving run_transform_pipeline
    rsStages        \* stages started

resolveVars == <<rsPc, rsFs, rsReq, rsOut, rsErr, rsStages>>

outsidePipe == <<convVars, markerVars, extractVars, renderVars, resolveVars>>
outsideConv == <<pipeVars, markerVars, extractVars, renderVars, resolveVars>>
outsideMarker == <<pipeVars, convVars, extractVars, renderVars, resolveVars>>
outsideExtract == <<pipeVars, convVars, markerVars, renderVars, resolveVars>>
outsideRender == <<pipeVars, convVars, markerVars, extractVars, resolveVars>>
outsideResolve == <<pipeVars, convVars, markerVars, extractVars, renderVars>>

\* Two invocations of run_transform_pipeline, interleaved stage by stage.
Runs == {"a", "b"}

Stages == <<"profiling", "prompt1", "prompt2", "prompt3", "execute_cleaning">>

StageSet == {Stages[i] : i \in 1..Len(Stages)}

NoStage == "none"

\* How an invocation ended. kind: "running", "returned", or the exception
\* that left run_transform_pipeline; stage: the stage its message names.
Outcome(kind, stage) == [kind |-> kind, stage |-> stage]

Running == Outcome("running", NoStage)

\* ProcessingException(stage, details): "Error in <stage>: <details>".
ProcessingException(stage) == Outcome("ProcessingException", stage)

\* FileNotFoundException(...): "File not found: ...".
FileNotFoundException == Outcome("FileNotFoundException", NoStage)

\* Any other exception leaving the pipeline unwrapped; its message is the
\* raiser's own and names no stage.
RawException == Outcome("Exception", NoStage)

\* ------------------------------------------------- table resolution

\* doc_dir.exists(): the extractor creates the directory with its tables.
DocDirExists(fs, doc) == \E p \in fs : p.dir = EACH_TABLE_DIR /\ p.doc = doc

\* s.replace(pat, ""): every non-overlapping occurrence, left to right.
RECURSIVE RemoveAll(_, _)
RemoveAll(s, pat) ==
    IF Len(s) < Len(pat) \/ pat = <<>> THEN s
    ELSE IF SubSeq(s, 1, Len(pat)) = pat
         THEN RemoveAll(SubSeq(s, Len(pat) + 1, Len(s)), pat)
         ELSE <<s[1]>> \o RemoveAll(SubSeq(s, 2, Len(s)), pat)

UpperChars == <<"A", "B", "C", "E", "L", "S", "T", "V">>
LowerChars == <<"a", "b", "c", "e", "l", "s", "t", "v">>

LowerChar(c) ==
    IF \E i \in 1..Len(UpperChars) : UpperChars[i] = c
    THEN LowerChars[CHOOSE i \in 1..Len(UpperChars) : UpperChars[i] = c]
    ELSE c

\* str.lower()
Lower(s) == [i \in 1..Len(s) |-> LowerChar(s[i])]

NotFound == <<>>

\* _resolve_table_csv: <<path>> of the table file, NotFound when it raises
\* FileNotFoundException.
ResolveTableCsv(fs, doc, table_id) ==
    IF ~DocDirExists(fs, doc) THEN NotFound
    ELSE
      LET base == RemoveAll(table_id, S_csv)
          c1 == Path(EACH_TABLE_DIR, doc, base)
          c2 == Path(EACH_TABLE_DIR, doc, base \o S_csv)
          globbed == {p \in fs : /\ p.dir = EACH_TABLE_DIR
                                 /\ p.doc = doc
                                 /\ Suffix(p.name) = S_csv
                                 /\ Lower(Stem(p.name)) = Lower(base)}
      IN IF c1 \in fs \/ base = <<>> THEN <<c1>>  \* doc_dir / "" is doc_dir itself
         ELSE IF c2 \in fs THEN <<c2>>
         ELSE IF globbed # {} THEN <<CHOOSE p \in globbed : TRUE>>
         ELSE NotFound

\* ------------------------------------------------------- profiling stage

\* Where process_table_file puts the profile of a table file.
ProfilePathOf(csv) ==
    Path(PROFILE_RAW_DF_DIR, csv.doc, Stem(csv.name) \o S_profile \o S_json)

\* process_table_file: the tree after it ran. It returns without writing when
\* the CSV cannot be read or the profile cannot be written.
ProcessTableFile(fs, csv, readOk, dumpOk) ==
    IF readOk /\ dumpOk THEN fs \cup {ProfilePathOf(csv)} ELSE fs

\* As ProfileResult, without the json_path.exists() check.
ProfileResultUnchecked(fsAfter, csv) == <<ProfilePathOf(csv)>>

\* The result list of process_tables_to_profiles for one table: the expected
\* profile path, kept only if it exists after process_table_file.
ProfileResult(fsAfter, csv) ==
    IF ProfilePathOf(csv) \in fsAfter THEN <<ProfilePathOf(csv)>> ELSE <<>>

\* ------------------------------------------------------ orchestrator guard

\* As StageGuard, every guard raising with the first guard's stage name.
StageGuardMisnamed(stage, paths) ==
    IF paths = <<>> THEN ProcessingException("profiling") ELSE Running

\* The check after each stage: an empty result list raises the
\* ProcessingException of that stage.
StageGuard(stage, paths) ==
    IF paths = <<>> THEN ProcessingException(stage) ELSE Running

\* As After, the strategy stage being run again after it succeeded.
AfterRetry(stage) ==
    CASE stage = "profiling" -> "prompt1"
      [] stage = "prompt1" -> "prompt2"
      [] stage = "prompt2" -> "prompt2"
      [] stage = "prompt3" -> "execute_cleaning"
      [] stage = "execute_cleaning" -> "done"

\* The stage run_transform_pipeline goes on to after a stage passed its
\* guard; after the last one it returns.
After(stage) ==
    CASE stage = "profiling" -> "prompt1"
      [] stage = "prompt1" -> "prompt2"
      [] stage = "prompt2" -> "prompt3"
      [] stage = "prompt3" -> "execute_cleaning"
      [] stage = "execute_cleaning" -> "done"

\* History of a stage's result list.
Yielded(paths) == IF paths = <<>> THEN "empty" ELSE "nonempty"

\* A stage starts: its name and whether the artifact it consumes is on disk.
Started(r, stage, prev) ==
    trace' = [trace EXCEPT ![r] = Append(@, [stage |-> stage,
                                              prevOnDisk |-> prev \in files])]


\* ------------------------------------------------------ prompt stages

\* save_analysis_as_json's target
Prompt1PathOf(doc, table_num) ==
    Path(PROMPT1_PROFILE_DIR, doc, S_prompt1_table \o ToDigits(table_num) \o S_json)

\* save_strategy_as_markdown's target
Prompt2PathOf(doc, table_num) ==
    Path(PROMPT2_PROMPT1_DIR, doc, S_prompt2_table \o ToDigits(table_num) \o S_md)

\* The code artifact's target: prompt3_py<n>.py, n taken from the strategy
\* file's name as the sibling stages take theirs.
Prompt3PathOf(doc, table_num) ==
    Path(PROMPT3_PROMPT2_DIR, doc, S_prompt3_py \o ToDigits(table_num) \o S_py)

\* ------------------------------------------------------ execution stage

CleanedPathOf(doc, csv) ==
    Path(CLEANED_DATA_DIR, doc, S_cleaned_ \o Stem(csv.name) \o S_csv)

LogPathOf(doc, csv) ==
    Path(CLEANED_DATA_DIR, doc, S_log_ \o Stem(csv.name) \o S_json)

\* What the environment decides for one run_cleaning_script call: whether the
\* raw CSV can be read, whether the artifact loads, whether it defines
\* transform2tidy_table, what the entry point does ("pair": returns
\* (table, log); "table": returns a table only; "raises"), and how saving goes
\* ("ok"; "to_csv_raises": the cleaned table cannot be written; "log_raises":
\* the log cannot be serialised after the table was written).
ExecEnvs ==
    [csvReadOk : BOOLEAN, loadOk : BOOLEAN, hasEntry : BOOLEAN,
     entry : {"pair", "table", "raises"},
     save : {"ok", "to_csv_raises", "log_raises"}]

\* The statements inside run_cleaning_script's outer try. ret: the value
\* returned (<<>> is None); wrote: the files created; raised: an exception
\* reached the outer handler.
CleaningBody(fs, script, csv, doc, env) ==
    IF ~env.csvReadOk
    THEN [ret |-> <<>>, wrote |-> {}, raised |-> TRUE]
    ELSE IF ~(env.loadOk /\ script \in fs)
    THEN [ret |-> <<>>, wrote |-> {}, raised |-> TRUE]
    ELSE IF ~env.hasEntry
    THEN [ret |-> <<>>, wrote |-> {}, raised |-> FALSE]
    ELSE IF env.entry = "raises"
    THEN [ret |-> <<>>, wrote |-> {}, raised |-> FALSE]
    ELSE IF env.save = "to_csv_raises"
    THEN [ret |-> <<>>, wrote |-> {}, raised |-> TRUE]
    ELSE IF env.save = "log_raises"
    THEN [ret |-> <<>>, wrote |-> {CleanedPathOf(doc, csv), LogPathOf(doc, csv)},
          raised |-> TRUE]
    ELSE [ret |-> <<CleanedPathOf(doc, csv)>>,
          wrote |-> {CleanedPathOf(doc, csv), LogPathOf(doc, csv)},
          raised |-> FALSE]

\* As OuterExcept, with no outer handler: what the body raises leaves
\* run_cleaning_script.
OuterExceptMissing(body) ==
    [ret |-> body.ret, wrote |-> body.wrote, propagated |-> body.raised]

\* The outer "except Exception": logs and returns None.
OuterExcept(body) ==
    [ret |-> IF body.raised THEN <<>> ELSE body.ret,
     wrote |-> body.wrote,
     propagated |-> FALSE]

\* run_cleaning_script
RunCleaningScript(fs, script, csv, doc, env) ==
    OuterExcept(CleaningBody(fs, script, csv, doc, env))

NotExecuted ==
    [ran |-> FALSE, env |-> [csvReadOk |-> TRUE, loadOk |-> TRUE, hasEntry |-> TRUE,
                             entry |-> "pair", save |-> "ok"],
     scriptOnDisk |-> TRUE, ret |-> <<>>, propagated |-> FALSE]

\* ------------------------------------------------------------- actions

PipeInit ==
    /\ files = {Path(EACH_TABLE_DIR, Doc, TableCsvName(n)) : n \in 1..MaxTable}
    /\ pc = [r \in Runs |-> "idle"]
    /\ csvPath = [r \in Runs |-> <<>>]
    /\ profilePaths = [r \in Runs |-> <<>>]
    /\ prompt1Paths = [r \in Runs |-> <<>>]
    /\ prompt2Paths = [r \in Runs |-> <<>>]
    /\ prompt3Paths = [r \in Runs |-> <<>>]
    /\ cleanedPaths = [r \in Runs |-> <<>>]
    /\ outcome = [r \in Runs |-> Running]
    /\ trace = [r \in Runs |-> <<>>]
    /\ stageResult = [r \in Runs |-> [s \in StageSet |-> "notrun"]]
    /\ llmCalls = [r \in Runs |-> [s \in StageSet |-> 0]]
    /\ written = [r \in Runs |-> {}]
    /\ execInfo = [r \in Runs |-> NotExecuted]

\* The invocation ends with exception e.
Raise(r, e) ==
    /\ pc' = [pc EXCEPT ![r] = "failed"]
    /\ outcome' = [outcome EXCEPT ![r] = e]

\* run_transform_pipeline up to the first stage: resolve the table and read
\* the LLM configuration.
Resolve(r) ==
    /\ pc[r] = "idle"
    /\ \E doc \in {Doc, NoDoc}, n \in 1..(MaxTable + 1), keyOk \in BOOLEAN :
         LET found == ResolveTableCsv(files, doc, TableId(n))
         IN IF found = NotFound
            THEN Raise(r, FileNotFoundException) /\ UNCHANGED csvPath
            ELSE IF ~keyOk
            THEN Raise(r, RawException) /\ csvPath' = [csvPath EXCEPT ![r] = found]
            ELSE /\ pc' = [pc EXCEPT ![r] = "profiling"]
                 /\ csvPath' = [csvPath EXCEPT ![r] = found]
                 /\ UNCHANGED outcome
    /\ UNCHANGED <<files, profilePaths, prompt1Paths, prompt2Paths, prompt3Paths,
                   cleanedPaths, trace, stageResult, llmCalls, written, execInfo>>
    /\ UNCHANGED outsidePipe

\* process_tables_to_profiles([csv_path], ...) and the guard after it.
Profiling(r) ==
    /\ pc[r] = "profiling"
    /\ \E readOk \in BOOLEAN, dumpOk \in BOOLEAN :
         LET csv == csvPath[r][1]
             fsAfter == ProcessTableFile(files, csv, readOk, dumpOk)
             paths == ProfileResult(fsAfter, csv)
             guard == StageGuard("profiling", paths)
         IN /\ Started(r, "profiling", csv)
            /\ files' = fsAfter
            /\ written' = [written EXCEPT ![r] =
                              @ \cup (IF readOk /\ dumpOk THEN {ProfilePathOf(csv)} ELSE {})]
            /\ profilePaths' = [profilePaths EXCEPT ![r] = paths]
            /\ stageResult' = [stageResult EXCEPT ![r]["profiling"] = Yielded(paths)]
            /\ IF guard # Running
               THEN Raise(r, guard)
               ELSE pc' = [pc EXCEPT ![r] = After("profiling")] /\ UNCHANGED outcome
    /\ UNCHANGED <<csvPath, prompt1Paths, prompt2Paths, prompt3Paths, cleanedPaths,
                   llmCalls, execInfo>>
    /\ UNCHANGED outsidePipe

\* process_tables_with_prompt1 for the one (csv, profile) pair, and the guard
\* after it. The profile is opened, the CSV read again for the preview, the
\* prompt rendered (a render failure falls back to the raw template) and the
\* text-generation service called; nothing in between catches an exception.
Prompt1(r) ==
    /\ pc[r] = "prompt1"
    /\ \E csvReadOk \in BOOLEAN, llmOk \in BOOLEAN :
         LET profile == profilePaths[r][1]
             table_num == TableNum(Stem(profile.name), 0)
             result_path == Prompt1PathOf(csvPath[r][1].doc, table_num)
             called == profile \in files /\ csvReadOk
             raised == ~called \/ ~llmOk
             paths == IF raised THEN <<>> ELSE <<result_path>>
             guard == StageGuard("prompt1", paths)
         IN /\ Started(r, "prompt1", profile)
            /\ llmCalls' = [llmCalls EXCEPT ![r]["prompt1"] = IF called THEN @ + 1 ELSE @]
            /\ IF raised
               THEN /\ Raise(r, RawException)
                    /\ stageResult' = [stageResult EXCEPT ![r]["prompt1"] =
                                          IF called THEN "llm_raised" ELSE "raised"]
                    /\ UNCHANGED <<files, written, prompt1Paths>>
               ELSE /\ files' = files \cup {result_path}
                    /\ written' = [written EXCEPT ![r] = @ \cup {result_path}]
                    /\ prompt1Paths' = [prompt1Paths EXCEPT ![r] = paths]
                    /\ stageResult' = [stageResult EXCEPT ![r]["prompt1"] = Yielded(paths)]
                    /\ IF guard # Running
                       THEN Raise(r, guard)
                       ELSE pc' = [pc EXCEPT ![r] = After("prompt1")] /\ UNCHANGED outcome
    /\ UNCHANGED <<csvPath, profilePaths, prompt2Paths, prompt3Paths, cleanedPaths,
                   execInfo>>
    /\ UNCHANGED outsidePipe

\* process_tables_with_prompt2 for the one analysis path, and the guard after
\* it.
Prompt2(r) ==
    /\ pc[r] = "prompt2"
    /\ \E llmOk \in BOOLEAN :
         LET analysis == prompt1Paths[r][1]
             table_num == TableNum(Stem(analysis.name), 0)
             result_path == Prompt2PathOf(csvPath[r][1].doc, table_num)
             called == analysis \in files
             raised == ~called \/ ~llmOk
             paths == IF raised THEN <<>> ELSE <<result_path>>
             guard == StageGuard("prompt2", paths)
         IN /\ Started(r, "prompt2", analysis)
            /\ llmCalls' = [llmCalls EXCEPT ![r]["prompt2"] = IF called THEN @ + 1 ELSE @]
            /\ IF raised
               THEN /\ Raise(r, RawException)
                    /\ stageResult' = [stageResult EXCEPT ![r]["prompt2"] =
                                          IF called THEN "llm_raised" ELSE "raised"]
                    /\ UNCHANGED <<files, written, prompt2Paths>>
               ELSE /\ files' = files \cup {result_path}
                    /\ written' = [written EXCEPT ![r] = @ \cup {result_path}]
                    /\ prompt2Paths' = [prompt2Paths EXCEPT ![r] = paths]
                    /\ stageResult' = [stageResult EXCEPT ![r]["prompt2"] = Yielded(paths)]
                    /\ IF guard # Running
                       THEN Raise(r, guard)
                       ELSE pc' = [pc EXCEPT ![r] = After("prompt2")] /\ UNCHANGED outcome
    /\ UNCHANGED <<csvPath, profilePaths, prompt1Paths, prompt3Paths, cleanedPaths,
                   execInfo>>
    /\ UNCHANGED outsidePipe

\* process_tables_with_prompt3 for the one (profile, strategy) pair, and the
\* guard after it.
Prompt3(r) ==
    /\ pc[r] = "prompt3"
    /\ \E llmOk \in BOOLEAN :
         LET strategy == prompt2Paths[r][1]
             table_num == TableNum(Stem(strategy.name), 0)
             result_path == Prompt3PathOf(csvPath[r][1].doc, table_num)
             called == strategy \in files /\ profilePaths[r][1] \in files
             raised == ~called \/ ~llmOk
             paths == IF raised THEN <<>> ELSE <<result_path>>
             guard == StageGuard("prompt3", paths)
         IN /\ Started(r, "prompt3", strategy)
            /\ llmCalls' = [llmCalls EXCEPT ![r]["prompt3"] = IF called THEN @ + 1 ELSE @]
            /\ IF raised
               THEN /\ Raise(r, RawException)
                    /\ stageResult' = [stageResult EXCEPT ![r]["prompt3"] =
                                          IF called THEN "llm_raised" ELSE "raised"]
                    /\ UNCHANGED <<files, written, prompt3Paths>>
               ELSE /\ files' = files \cup {result_path}
                    /\ written' = [written EXCEPT ![r] = @ \cup {result_path}]
                    /\ prompt3Paths' = [prompt3Paths EXCEPT ![r] = paths]
                    /\ stageResult' = [stageResult EXCEPT ![r]["prompt3"] = Yielded(paths)]
                    /\ IF guard # Running
                       THEN Raise(r, guard)
                       ELSE pc' = [pc EXCEPT ![r] = After("prompt3")] /\ UNCHANGED outcome
    /\ UNCHANGED <<csvPath, profilePaths, prompt1Paths, prompt2Paths, cleanedPaths,
                   execInfo>>
    /\ UNCHANGED outsidePipe

\* execute_cleaning_scripts([(prompt3_paths[0], csv_path)], cleaned_dir), the
\* guard after it, and the row counts that end run_transform_pipeline.
ExecuteCleaning(r) ==
    /\ pc[r] = "execute_cleaning"
    /\ \E env \in ExecEnvs, countOk \in BOOLEAN :
         LET script == prompt3Paths[r][1]
             csv == csvPath[r][1]
             res == RunCleaningScript(files, script, csv, csv.doc, env)
             paths == IF res.propagated THEN <<>> ELSE res.ret
             guard == StageGuard("execute_cleaning", paths)
         IN /\ Started(r, "execute_cleaning", script)
            /\ files' = files \cup res.wrote
            /\ written' = [written EXCEPT ![r] = @ \cup res.wrote]
            /\ execInfo' = [execInfo EXCEPT ![r] =
                               [ran |-> TRUE, env |-> env, scriptOnDisk |-> script \in files,
                                ret |-> res.ret, propagated |-> res.propagated]]
            /\ cleanedPaths' = [cleanedPaths EXCEPT ![r] = paths]
            /\ stageResult' = [stageResult EXCEPT ![r]["execute_cleaning"] =
                                  IF res.propagated THEN "raised" ELSE Yielded(paths)]
            /\ IF res.propagated THEN Raise(r, RawException)
               ELSE IF guard # Running THEN Raise(r, guard)
               ELSE IF ~countOk THEN Raise(r, RawException)
               ELSE /\ pc' = [pc EXCEPT ![r] = After("execute_cleaning")]
                    /\ outcome' = [outcome EXCEPT ![r] = Outcome("returned", NoStage)]
    /\ UNCHANGED <<csvPath, profilePaths, prompt1Paths, prompt2Paths, prompt3Paths,
                   llmCalls>>
    /\ UNCHANGED outsidePipe

PipeNext ==
    \E r \in Runs :
        \/ Resolve(r)
        \/ Profiling(r)
        \/ Prompt1(r)
        \/ Prompt2(r)
        \/ Prompt3(r)
        \/ ExecuteCleaning(r)


\* ================================================================
\* The PDF splitter, the Marker runner and the GPU resource gate
\* ================================================================

\* Settings read with os.getenv. The thresholds are the defaults. The wait's
\* timeout and poll interval (defaults 600 and 5 seconds) are set short, so
\* that a wait that times out takes a handful of polls.
GPU_TEMP_THRESHOLD_C == 85
GPU_MEM_FREE_MB == 500
GPU_WAIT_TIMEOUT_SEC == 2
GPU_POLL_INTERVAL_SEC == 1

\* ------------------------------------------------------ nvidia-smi

\* One line of nvidia-smi's CSV output: a unit (index, temperature, total and
\* used memory), a line of fewer than four fields ("short"), or a line with a
\* field int() rejects ("nan"). The index is only logged and left out. The
\* units are at the edges of the thresholds: one just cool enough with just
\* enough memory free, one at the temperature threshold, one a megabyte short.
UnitLines ==
    {[kind |-> "unit", temp |-> t, total |-> 2 * GPU_MEM_FREE_MB, used |-> u] :
        <<t, u>> \in {<<GPU_TEMP_THRESHOLD_C - 1, GPU_MEM_FREE_MB>>,
                      <<GPU_TEMP_THRESHOLD_C, GPU_MEM_FREE_MB>>,
                      <<GPU_TEMP_THRESHOLD_C - 1, GPU_MEM_FREE_MB + 1>>}}

OddLines ==
    {[kind |-> k, temp |-> 0, total |-> 0, used |-> 0] : k \in {"short", "nan"}}

SeqUpTo(S, n) == UNION {[1..k -> S] : k \in 0..n}

\* What running nvidia-smi gives: it is missing, exits non-zero, or prints
\* lines.
RawReadings ==
    {[status |-> st, lines |-> <<>>] : st \in {"missing", "nonzero"}}
        \cup {[status |-> "ok", lines |-> l] : l \in SeqUpTo(UnitLines \cup OddLines, MaxUnits)}

IsUnitLine(ln) == ln.kind = "unit"

\* _query_nvidia_smi: the units reported; the empty list when the tool is
\* missing, fails, or a field does not parse (the exception discards every
\* line); short lines are skipped.
QueryNvidiaSmi(raw) ==
    IF raw.status # "ok" THEN <<>>
    ELSE IF \E i \in 1..Len(raw.lines) : raw.lines[i].kind = "nan" THEN <<>>
    ELSE SelectSeq(raw.lines, IsUnitLine)

\* As TempTooHigh, with > for >=.
TempTooHighStrict(temp) == temp > GPU_TEMP_THRESHOLD_C

\* temp >= GPU_TEMP_THRESHOLD_C
TempTooHigh(temp) == temp >= GPU_TEMP_THRESHOLD_C

\* mem_free < GPU_MEM_FREE_MB
MemTooLow(mem_free) == mem_free < GPU_MEM_FREE_MB

\* The loop of _gpu_state_ok from unit i on: the first unit over a threshold
\* returns False.
RECURSIVE GpuLoop(_, _)
GpuLoop(gpus, i) ==
    IF i > Len(gpus) THEN TRUE
    ELSE IF TempTooHigh(gpus[i].temp) THEN FALSE
    ELSE IF MemTooLow(gpus[i].total - gpus[i].used) THEN FALSE
    ELSE GpuLoop(gpus, i + 1)

\* _gpu_state_ok on the units a query reported
GpuStateOk(gpus) == IF gpus = <<>> THEN TRUE ELSE GpuLoop(gpus, 1)

\* ------------------------------------------------------ the splitter

\* f"{n:04d}"
Pad4(n) ==
    LET d == ToDigits(n)
    IN IF Len(d) >= 4 THEN d ELSE [i \in 1..(4 - Len(d)) |-> "0"] \o d

\* image_path.stem.split("_page_")[-1] of the image of a page, which
\* _convert_pdf_to_images names <stem>_page_<page:04d>.png
PageNumOfImage(page) == Pad4(page)

\* How converting one chunk can end: Marker's output is at the canonical path
\* or discovered elsewhere; or MarkerError because the gate timed out, Marker
\* exited non-zero, no output was found, or the output could not be read.
MarkerOutcomes == {"canonical", "discovered", "exit_nonzero", "not_found", "read_failed"}

\* An entry of contents: the page, whether its text is Marker's or the
\* placeholder, and why.
Entry(page, kind, cause) == [page |-> page, kind |-> kind, cause |-> cause]

\* As OnPageError, the loop's handler re-raising.
OnPageErrorReraise(page, cause) ==
    [fatal |-> TRUE, entry |-> Entry(page, "placeholder", cause)]

\* The except MarkerError of the page loop: the placeholder is appended and
\* the loop goes on.
OnPageError(page, cause) ==
    [fatal |-> FALSE, entry |-> Entry(page, "placeholder", cause)]

\* _combine_markdown_content: the title, the page-count line, and per entry a
\* "## Page" heading, the text and a rule.
CombineMarkdownContent(cs) ==
    [title |-> "Document",
     count |-> Len(cs),
     sections |-> [i \in 1..Len(cs) |->
                     [heading |-> PageNumOfImage(cs[i].page),
                      body |-> cs[i].kind,
                      rule |-> TRUE]]]

Range(f) == {f[i] : i \in DOMAIN f}

\* _cleanup_temp_images: the images left on disk; stuck are those whose
\* unlink fails.
CleanupTempImages(onDisk, image_paths, keep_images, stuck) ==
    IF keep_images THEN onDisk ELSE onDisk \ (Range(image_paths) \ stuck)

NoReading == [status |-> "missing", lines |-> <<>>]

ConvInit ==
    /\ cpc = "idle"
    /\ nPages = 0
    /\ keep = FALSE
    /\ images = {}
    /\ imagePaths = <<>>
    /\ idx = 0
    /\ contents = <<>>
    /\ combined = <<>>
    /\ retCount = 0
    /\ cerror = "none"
    /\ gatePc = "quick"
    /\ elapsed = 0
    /\ polls = 0
    /\ sleeps = 0
    /\ lastRaw = NoReading
    /\ lastOk = TRUE
    /\ firstEmpty = FALSE
    /\ produced = {}
    /\ unlinkFailed = {}
    /\ submitted = <<>>
    /\ launched = <<>>

\* A call of wait_for_gpu_ready begins.
GateReset ==
    /\ gatePc' = "quick"
    /\ elapsed' = 0
    /\ polls' = 0
    /\ sleeps' = 0
    /\ lastRaw' = NoReading
    /\ lastOk' = TRUE
    /\ firstEmpty' = FALSE

gateVars == <<gatePc, elapsed, polls, sleeps, lastRaw, lastOk, firstEmpty>>

\* convert_pdf_and_process up to the page loop: render the pages to images
\* (failAt = j > 0: rendering page j raises after pages 1..j-1 were saved) and
\* create the document's output directory.
ConvStart ==
    /\ cpc = "idle"
    /\ \E n \in 0..MaxPages, k \in BOOLEAN, failAt \in 0..MaxPages, mkdirOk \in BOOLEAN,
          stuck \in SUBSET (1..MaxPages) :
         /\ failAt <= n
         /\ stuck \subseteq 1..n
         /\ nPages' = n
         /\ keep' = k
         /\ IF failAt > 0
            THEN \* MarkerError out of _convert_pdf_to_images: image_paths is still []
                 /\ stuck = {}
                 /\ produced' = 1..(failAt - 1)
                 /\ unlinkFailed' = {}
                 /\ images' = CleanupTempImages(1..(failAt - 1), <<>>, k, stuck)
                 /\ imagePaths' = <<>>
                 /\ cerror' = "render"
                 /\ cpc' = "failed"
                 /\ idx' = 0
            ELSE IF n = 0
            THEN /\ stuck = {}
                 /\ produced' = {}
                 /\ unlinkFailed' = {}
                 /\ images' = {}
                 /\ imagePaths' = <<>>
                 /\ cerror' = "no_images"
                 /\ cpc' = "failed"
                 /\ idx' = 0
            ELSE IF ~mkdirOk
            THEN \* except Exception: cleanup with keep_images=False
                 /\ produced' = 1..n
                 /\ unlinkFailed' = stuck
                 /\ images' = CleanupTempImages(1..n, [i \in 1..n |-> i], FALSE, stuck)
                 /\ imagePaths' = [i \in 1..n |-> i]
                 /\ cerror' = "unexpected"
                 /\ cpc' = "failed"
                 /\ idx' = 0
            ELSE /\ stuck = {}
                 /\ produced' = 1..n
                 /\ unlinkFailed' = {}
                 /\ images' = 1..n
                 /\ imagePaths' = [i \in 1..n |-> i]
                 /\ cerror' = "none"
                 /\ cpc' = "gate"
                 /\ idx' = 1
         /\ submitted' = IF failAt = 0 /\ n > 0 /\ mkdirOk THEN <<1>> ELSE <<>>
    /\ UNCHANGED <<contents, combined, retCount, launched>>
    /\ UNCHANGED gateVars
    /\ UNCHANGED outsideConv

\* As LoopStep, the loop taking every other image.
LoopStepSkip(i, n) ==
    [idx |-> i + 2, more |-> i + 2 <= n]

\* for idx, image_path in enumerate(image_paths, 1): the step from image i
\* of n to the next, if there is one.
LoopStep(i, n) ==
    [idx |-> i + 1, more |-> i + 1 <= n]

\* The page loop appends e and moves to the next page, or leaves the loop.
PageDone(e) ==
    /\ contents' = Append(contents, e)
    /\ idx' = LoopStep(idx, nPages).idx
    /\ IF LoopStep(idx, nPages).more
       THEN /\ cpc' = "gate"
            /\ submitted' = Append(submitted, LoopStep(idx, nPages).idx)
       ELSE /\ cpc' = "combine"
            /\ UNCHANGED submitted
    /\ GateReset
    /\ UNCHANGED <<nPages, keep, images, imagePaths, combined, retCount, cerror,
                   produced, unlinkFailed>>

\* A MarkerError raised while converting the current page reaches the loop's
\* handler; one it lets through reaches the outer except MarkerError.
PageFailed(cause) ==
    LET h == OnPageError(idx, cause)
    IN IF h.fatal
       THEN /\ \E stuck \in SUBSET images :
                 /\ keep => stuck = {}
                 /\ unlinkFailed' = stuck
                 /\ images' = CleanupTempImages(images, imagePaths, keep, stuck)
            /\ cerror' = cause
            /\ cpc' = "failed"
            /\ UNCHANGED <<nPages, keep, imagePaths, idx, contents, combined, retCount,
                           produced, submitted>>
            /\ UNCHANGED gateVars
       ELSE PageDone(h.entry)

\* wait_for_gpu_ready: the quick check.
GateQuick ==
    /\ cpc = "gate"
    /\ gatePc = "quick"
    /\ \E raw \in RawReadings :
         LET gpus == QueryNvidiaSmi(raw)
             ok == GpuStateOk(gpus)
         IN /\ lastRaw' = raw
            /\ lastOk' = ok
            /\ firstEmpty' = (gpus = <<>>)
            /\ polls' = polls + 1
            /\ IF ok THEN cpc' = "marker" /\ UNCHANGED gatePc
                     ELSE gatePc' = "loop" /\ UNCHANGED cpc
    /\ UNCHANGED <<nPages, keep, images, imagePaths, idx, contents, combined, retCount,
                   cerror, elapsed, sleeps, produced, unlinkFailed, submitted, launched>>
    /\ UNCHANGED outsideConv

\* What nvidia-smi gives the polls of the while loop: the readings of one
\* line at most, which are every way a poll can go: no unit, a unit that is
\* ready, one too hot, one short of memory.
LoopReadings == {raw \in RawReadings : Len(raw.lines) <= 1}

\* As TimedOut, with >= for >.
TimedOutEarly(waited) == waited >= GPU_WAIT_TIMEOUT_SEC

\* time.time() - start > timeout
TimedOut(waited) == waited > GPU_WAIT_TIMEOUT_SEC

\* wait_for_gpu_ready: one turn of the while loop: check, then time out or
\* sleep.
GatePoll ==
    /\ cpc = "gate"
    /\ gatePc = "loop"
    /\ \E raw \in LoopReadings :
         LET ok == GpuStateOk(QueryNvidiaSmi(raw))
         IN /\ lastRaw' = raw
            /\ lastOk' = ok
            /\ polls' = polls + 1
            /\ IF ok
               THEN cpc' = "marker" /\ UNCHANGED <<gatePc, elapsed, sleeps>>
               ELSE IF TimedOut(elapsed)
               THEN gatePc' = "timed_out" /\ UNCHANGED <<cpc, elapsed, sleeps>>
               ELSE /\ elapsed' = elapsed + GPU_POLL_INTERVAL_SEC
                    /\ sleeps' = sleeps + 1
                    /\ UNCHANGED <<cpc, gatePc>>
    /\ UNCHANGED <<nPages, keep, images, imagePaths, idx, contents, combined, retCount,
                   cerror, firstEmpty, produced, unlinkFailed, submitted, launched>>
    /\ UNCHANGED outsideConv

\* As OnGateTimeout, the handler passing over the error.
OnGateTimeoutPass == "proceed"

\* run_marker_for_chunk's except MarkerError around wait_for_gpu_ready
\* re-raises.
OnGateTimeout == "raise"

\* wait_for_gpu_ready raises MarkerError for the timeout; it passes
\* run_marker_for_chunk and _process_image_with_marker unchanged and reaches
\* the page loop.
GateRaise ==
    /\ cpc = "gate"
    /\ gatePc = "timed_out"
    /\ IF OnGateTimeout = "raise"
       THEN PageFailed("gate_timeout")
       ELSE /\ cpc' = "marker"
            /\ UNCHANGED <<nPages, keep, images, imagePaths, idx, contents, combined,
                           retCount, cerror, produced, unlinkFailed, submitted>>
            /\ UNCHANGED gateVars
    /\ UNCHANGED launched
    /\ UNCHANGED outsideConv

\* run_marker_for_chunk after the gate and _process_image_with_marker's read
\* of the output.
MarkerRun ==
    /\ cpc = "marker"
    /\ launched' = Append(launched, idx)
    /\ \E m \in MarkerOutcomes :
         IF m \in {"canonical", "discovered"}
         THEN PageDone(Entry(idx, "content", m))
         ELSE PageFailed(m)
    /\ UNCHANGED outsideConv

\* convert_pdf_and_process after the loop: combine, save, clean up, return.
Combine ==
    /\ cpc = "combine"
    /\ \E saveOk \in BOOLEAN, stuck \in SUBSET images :
         /\ keep => stuck = {}
         /\ unlinkFailed' = stuck
         /\ images' = CleanupTempImages(images, imagePaths, keep, stuck)
         /\ IF saveOk
            THEN /\ combined' = <<CombineMarkdownContent(contents)>>
                 /\ retCount' = Len(contents)
                 /\ cpc' = "done"
                 /\ UNCHANGED cerror
            ELSE /\ cerror' = "save"
                 /\ cpc' = "failed"
                 /\ UNCHANGED <<combined, retCount>>
    /\ UNCHANGED <<nPages, keep, imagePaths, idx, contents, produced, submitted, launched>>
    /\ UNCHANGED gateVars
    /\ UNCHANGED outsideConv

ConvNext ==
    \/ ConvStart
    \/ GateQuick
    \/ GatePoll
    \/ GateRaise
    \/ MarkerRun
    \/ Combine

\* ------------------------------------------------------ the Marker runner

\* MARKER_FLAGS as the environment leaves it by default
DEFAULT_MARKER_FLAGS == <<"--force_ocr", "--output_format", "markdown">>

\* What the discovery can come across under the chunk's stem: a file, with
\* the .md suffix or another; or a directory, with what its glob("*.md")
\* gives first (nothing, a file, a directory of such a name) and whether its
\* glob("*/*.md") gives a file.
CandidateKinds ==
    {[type |-> "file", md |-> b, inside |-> "none", below |-> "none"] : b \in BOOLEAN}
        \cup {[type |-> "dir", md |-> FALSE, inside |-> a, below |-> "none"] :
                 a \in {"none", "file", "dir"}}
        \cup {[type |-> "dir", md |-> FALSE, inside |-> "none", below |-> "file"]}

\* The candidates as the globs and the scan of the output list them: the
\* path each resolves to, its modification time and its kind; listings of
\* one path are listings of one entry of the file system.
Listings(n) ==
    {cs \in SeqUpTo([path : 1..MaxCand, mtime : 1..2, kind : CandidateKinds], n) :
        \A i, k \in 1..Len(cs) : cs[i].path = cs[k].path => cs[i] = cs[k]}

\* The calls of run_marker_for_chunk: whether the gate lets it through; the
\* executable's exit code (success, a failure, a death by signal) and stderr;
\* what is at the canonical path <stem>.md; the candidates of the
\* discovery; MARKER_FLAGS. They are the calls that reach the discovery, on
\* every listing; the others, on listings of up to one candidate; and the
\* calls on every sequence of up to MaxFlags flags.
MarkerCalls ==
    [gate : {"ready"}, returncode : {0}, stderr : {"", "CUDA out of memory"},
     canonical : {"absent"}, candidates : Listings(MaxCand),
     flags : {DEFAULT_MARKER_FLAGS}]
        \cup [gate : {"ready", "timeout"}, returncode : {0, 1, -9},
              stderr : {"", "CUDA out of memory"},
              canonical : {"absent", "file", "dir"}, candidates : Listings(1),
              flags : {DEFAULT_MARKER_FLAGS}]
        \cup [gate : {"ready"}, returncode : {0}, stderr : {""},
              canonical : {"file"}, candidates : {<<>>},
              flags : SeqUpTo({"--output_dir", "/x", "--force_ocr"}, MaxFlags)]

\* As SkipNext, no flag taking the next one with it.
SkipNextNever(flag) == FALSE

\* if flag == "--output_dir": skip_next = True
SkipNext(flag) == flag = "--output_dir"

\* The loop building filtered_flags, from flag i on.
RECURSIVE FilterFlags(_, _, _)
FilterFlags(flags, i, skip_next) ==
    IF i > Len(flags) THEN <<>>
    ELSE IF skip_next THEN FilterFlags(flags, i + 1, FALSE)
    ELSE IF flags[i] = "--output_dir" THEN FilterFlags(flags, i + 1, SkipNext(flags[i]))
    ELSE <<flags[i]>> \o FilterFlags(flags, i + 1, FALSE)

\* cmd = [MARKER_CLI, str(chunk_path), "--output_dir", str(output_dir)] + filtered_flags
Cmd(flags) ==
    <<"marker_single", "chunk_path", "--output_dir", "output_dir">>
        \o FilterFlags(flags, 1, FALSE)

\* As ExitFailed, taking only a positive code for a failure.
ExitFailedPositive(returncode) == returncode > 0

\* res.returncode != 0
ExitFailed(returncode) == returncode # 0

\* How a call ends: raised or returned, the command it ran if it ran one,
\* and whether it went through the discovery.
MarkerRaised(cause, stderr, discovery, cmd) ==
    [kind |-> "MarkerError", cause |-> cause, stderr |-> stderr, path |-> <<>>,
     discovery |-> discovery, cmd |-> cmd]

MarkerReturned(path, discovery, cmd) ==
    [kind |-> "path", cause |-> "none", stderr |-> "", path |-> <<path>>,
     discovery |-> discovery, cmd |-> cmd]

\* unique[str(c.resolve())] = c, for each candidate from i on: a path keeps
\* the place of its first listing.
RECURSIVE Unique(_, _, _)
Unique(candidates, i, unique) ==
    IF i > Len(candidates) THEN unique
    ELSE IF \E k \in 1..Len(unique) : unique[k].path = candidates[i].path
         THEN Unique(candidates, i + 1,
                     [k \in 1..Len(unique) |->
                         IF unique[k].path = candidates[i].path THEN candidates[i]
                         ELSE unique[k]])
         ELSE Unique(candidates, i + 1, Append(unique, candidates[i]))

\* candidates.sort(key=st_mtime, reverse=True), a stable sort: the candidates
\* of modification time mtime in their order, then the older ones.
RECURSIVE NewestFirst(_, _)
NewestFirst(candidates, mtime) ==
    IF mtime = 0 THEN <<>>
    ELSE LET At(c) == c.mtime = mtime
         IN SelectSeq(candidates, At) \o NewestFirst(candidates, mtime - 1)

\* The loop over the candidates from i on: a directory gives the first its
\* glob("*.md") gives or else the first its glob("*/*.md") gives, a .md file
\* is returned itself, anything else is passed over.
RECURSIVE Discover(_, _)
Discover(candidates, i) ==
    IF i > Len(candidates) THEN <<>>
    ELSE LET chosen == candidates[i]
         IN IF chosen.kind.type = "dir" /\ chosen.kind.inside # "none"
            THEN <<[via |-> chosen.path, depth |-> 1,
                    isFile |-> chosen.kind.inside = "file"]>>
            ELSE IF chosen.kind.type = "dir" /\ chosen.kind.below # "none"
            THEN <<[via |-> chosen.path, depth |-> 2,
                    isFile |-> chosen.kind.below = "file"]>>
            ELSE IF chosen.kind.type = "file" /\ chosen.kind.md
            THEN <<[via |-> chosen.path, depth |-> 0, isFile |-> TRUE]>>
            ELSE Discover(candidates, i + 1)

\* run_marker_for_chunk
RunMarkerForChunk(call) ==
    IF call.gate = "timeout" THEN MarkerRaised("gate_timeout", "", FALSE, <<>>)
    ELSE IF ExitFailed(call.returncode)
         THEN MarkerRaised("exit_nonzero", call.stderr, FALSE, Cmd(call.flags))
    ELSE IF call.canonical # "absent"  \* out_path.exists()
         THEN MarkerReturned([via |-> 0, depth |-> 0, isFile |-> call.canonical = "file"],
                             FALSE, Cmd(call.flags))
    ELSE LET d == Discover(NewestFirst(Unique(call.candidates, 1, <<>>), 2), 1)
         IN IF d # <<>> THEN MarkerReturned(d[1], TRUE, Cmd(call.flags))
            ELSE MarkerRaised("not_found", "", TRUE, Cmd(call.flags))

\* One call of run_marker_for_chunk.
MarkerCall ==
    /\ mOut = MarkerRaised("none", "", FALSE, <<>>)
    /\ \E call \in MarkerCalls :
         /\ mIn' = call
         /\ mOut' = RunMarkerForChunk(call)
    /\ UNCHANGED outsideMarker

\* ------------------------------------------------------ the table extractor

\* str.strip() of a line or cell; the whitespace of the documents is the blank.
RECURSIVE LStrip(_)
LStrip(s) == IF s # <<>> /\ s[1] = " " THEN LStrip(Tail(s)) ELSE s

RECURSIVE RStrip(_)
RStrip(s) ==
    IF s # <<>> /\ s[Len(s)] = " " THEN RStrip(SubSeq(s, 1, Len(s) - 1)) ELSE s

Strip(s) == RStrip(LStrip(s))

\* re.match(table_pattern, line.strip()), the pattern being r"^\|(.+)\|$": a
\* pipe, one character or more, a pipe.
IsTableRow(line) ==
    LET t == Strip(line)
    IN Len(t) >= 3 /\ t[1] = "|" /\ t[Len(t)] = "|"

\* s.split("|")
RECURSIVE SplitPipe(_)
SplitPipe(s) ==
    IF \A i \in 1..Len(s) : s[i] # "|" THEN <<s>>
    ELSE LET k == CHOOSE i \in 1..Len(s) : s[i] = "|" /\ \A j \in 1..(i - 1) : s[j] # "|"
         IN <<SubSeq(s, 1, k - 1)>> \o SplitPipe(SubSeq(s, k + 1, Len(s)))

\* As Inner, keeping the piece after the last pipe.
InnerToEnd(pieces) == SubSeq(pieces, 2, Len(pieces))

\* pieces[1:-1]
Inner(pieces) == SubSeq(pieces, 2, Len(pieces) - 1)

\* [c.strip() for c in line.split("|")[1:-1]]
Cells(line) ==
    LET inner == Inner(SplitPipe(line))
    IN [i \in 1..Len(inner) |-> Strip(inner[i])]

\* The loop of _parse_markdown_table over the lines from i on.
RECURSIVE DataRows(_, _, _)
DataRows(lines, headers, i) ==
    IF i > Len(lines) THEN <<>>
    ELSE IF Strip(lines[i]) = <<>> THEN DataRows(lines, headers, i + 1)
    ELSE LET cells == Cells(lines[i])
         IN IF Len(cells) = Len(headers)
            THEN <<cells>> \o DataRows(lines, headers, i + 1)
            ELSE DataRows(lines, headers, i + 1)

\* _parse_markdown_table: <<table>>, or <<>> for None.
ParseMarkdownTable(lines) ==
    IF Len(lines) < 2 THEN <<>>
    ELSE LET headers == Cells(lines[1])
             data_rows == DataRows(lines, headers, 3)  \* lines[2:]
         IN IF data_rows = <<>> THEN <<>>
            ELSE <<[headers |-> headers, rows |-> data_rows]>>

\* if df is not None and len(df) > 0: tables.append(df)
AppendParsed(tables, current_table_lines) ==
    IF current_table_lines = <<>> THEN tables
    ELSE LET df == ParseMarkdownTable(current_table_lines)
         IN IF df # <<>> /\ Len(df[1].rows) > 0 THEN tables \o df ELSE tables

\* The loop of extract_tables_as_dataframes over the lines from i on, and
\* the flush after it.
RECURSIVE ExtractLoop(_, _, _, _, _)
ExtractLoop(lines, i, tables, current_table_lines, in_table) ==
    IF i > Len(lines) THEN AppendParsed(tables, current_table_lines)
    ELSE IF IsTableRow(lines[i])
         THEN ExtractLoop(lines, i + 1, tables, Append(current_table_lines, lines[i]), TRUE)
    ELSE IF in_table /\ Strip(lines[i]) # <<>>
         THEN ExtractLoop(lines, i + 1, AppendParsed(tables, current_table_lines), <<>>, FALSE)
    ELSE ExtractLoop(lines, i + 1, tables, current_table_lines, in_table)

\* extract_tables_as_dataframes
ExtractTablesAsDataframes(lines) == ExtractLoop(lines, 1, <<>>, <<>>, FALSE)

\* As CsvIndex, counting from zero.
CsvIndexFromZero(pos) == pos - 1

\* enumerate(dfs, start=1): the index of the table at position pos.
CsvIndex(pos) == pos

\* save_tables_as_csv: the files written, in order.
SaveTablesAsCsv(tables) ==
    [pos \in 1..Len(tables) |->
        [name |-> TableCsvName(CsvIndex(pos)), table |-> tables[pos]]]

\* Lines of documents: rows of one and two columns, with and without blanks
\* around the cells and the line, separators, a line of prose, an empty line,
\* a single pipe, two adjacent pipes.
Line(k) ==
    CASE k = "a" -> <<"|", " ", "a", " ", "|">>
      [] k = "b" -> <<" ", "|", "b", "|", " ">>
      [] k = "sep" -> <<"|", "-", "|">>
      [] k = "ab" -> <<"|", "a", "|", "b", "|">>
      [] k = "ba" -> <<"|", " ", "b", " ", "|", " ", "a", " ", "|">>
      [] k = "sep2" -> <<"|", "-", "|", "-", "|">>
      [] k = "text" -> <<"x">>
      [] k = "empty" -> <<>>
      [] k = "pipe" -> <<"|">>
      [] k = "pipes" -> <<"|", "|">>

RECURSIVE Concat(_)
Concat(blocks) == IF blocks = <<>> THEN <<>> ELSE Head(blocks) \o Concat(Tail(blocks))

\* The documents extract is given: every sequence of up to MaxLines lines of
\* a pool, and every sequence of up to MaxBlocks blocks of a pool: tables of
\* one and two columns, one with a row of another arity, a header alone, a
\* header alone before prose, a table all of whose rows have another arity,
\* prose, an empty line.
Documents ==
    LET LinePool == {Line(k) : k \in {"a", "b", "sep", "ab", "text", "empty", "pipe", "pipes"}}
        BlockPool ==
            {<<Line("a"), Line("sep"), Line("b")>>,
             <<Line("ab"), Line("sep2"), Line("ba"), Line("a"), Line("ab")>>,
             <<Line("a")>>,
             <<Line("a"), Line("text")>>,
             <<Line("a"), Line("sep"), Line("ab")>>,
             <<Line("text")>>,
             <<Line("empty")>>}
    IN SeqUpTo(LinePool, MaxLines)
           \cup {Concat(bs) : bs \in SeqUpTo(BlockPool, MaxBlocks)}

\* What the converted text of the document may have become by a later call
\* of extract: no table, one table, two tables with prose between them.
Reconverted ==
    {<<>>,
     <<Line("a"), Line("sep"), Line("b")>>,
     <<Line("ab"), Line("sep2"), Line("ba"), Line("text"), Line("a"), Line("sep"),
       Line("b")>>}

\* TableExtractor.extract on a document: the tables, then their CSV files,
\* each written over the file of its name if there is one; the other files
\* of the directory stay.
Extract ==
    /\ \E lines \in IF exPc = "idle" THEN Documents ELSE Reconverted :
         LET tables == ExtractTablesAsDataframes(lines)
             csv_files == SaveTablesAsCsv(tables)
         IN /\ mdLines' = lines
            /\ rowFlags' = [i \in 1..Len(lines) |-> IsTableRow(lines[i])]
            /\ dfs' = tables
            /\ created' = csv_files
            /\ tableDir' =
                   {f \in tableDir : \A i \in 1..Len(csv_files) : csv_files[i].name # f.name}
                       \cup Range(csv_files)
    /\ exPc' = "done"
    /\ UNCHANGED outsideExtract

\* ------------------------------------------------------ the prompt loader

\* pat in s
Contains(s, pat) ==
    \E i \in 1..(Len(s) - Len(pat) + 1) : SubSeq(s, i, i + Len(pat) - 1) = pat

\* s.replace(pat, val): every non-overlapping occurrence, left to right.
RECURSIVE ReplaceAll(_, _, _)
ReplaceAll(s, pat, val) ==
    IF Len(s) < Len(pat) THEN s
    ELSE IF SubSeq(s, 1, Len(pat)) = pat
         THEN val \o ReplaceAll(SubSeq(s, Len(pat) + 1, Len(s)), pat, val)
         ELSE <<s[1]>> \o ReplaceAll(SubSeq(s, 2, Len(s)), pat, val)

\* The class [A-Z0-9_]
PlaceholderChars ==
    {"A", "B", "C", "D", "E", "F", "G", "H", "I", "J", "K", "L", "M", "N", "O", "P",
     "Q", "R", "S", "T", "U", "V", "W", "X", "Y", "Z",
     "0", "1", "2", "3", "4", "5", "6", "7", "8", "9", "_"}

\* re.findall(r"<[A-Z0-9_]+>", s) is not empty
HasLeftovers(s) ==
    \E i, j \in 1..Len(s) :
        /\ i + 1 < j
        /\ s[i] = "<"
        /\ s[j] = ">"
        /\ \A k \in (i + 1)..(j - 1) : s[k] \in PlaceholderChars

\* f"<{key}>"
Placeholder(key) == <<"<">> \o key \o <<">">>

\* The text put in for a value: a string as it is, anything else as
\* wrap_json_block(to_pretty_json(value)), its JSON text in a fenced block;
\* the fence of three backquotes is the one element "fence".
ValueText(value) ==
    IF value.isStr THEN value.text
    ELSE <<"fence", "j", "s", "o", "n", "\n">> \o value.text \o <<"\n", "fence">>

\* The loop of render_prompt over the variables from i on, in the dict's
\* order, and the check after it; it ends in the text returned or in
\* PromptRenderError.
RECURSIVE RenderLoop(_, _, _, _)
RenderLoop(rendered, variables, i, strict) ==
    IF i > Len(variables)
    THEN IF strict /\ HasLeftovers(rendered)
         THEN [kind |-> "PromptRenderError", cause |-> "leftovers", text |-> <<>>]
         ELSE [kind |-> "ok", cause |-> "none", text |-> rendered]
    ELSE LET placeholder == Placeholder(variables[i].key)
         IN IF strict /\ ~Contains(rendered, placeholder)  \* placeholder not in rendered
            THEN [kind |-> "PromptRenderError", cause |-> "not_found", text |-> <<>>]
            ELSE RenderLoop(ReplaceAll(rendered, placeholder, ValueText(variables[i].value)),
                            variables, i + 1, strict)

\* render_prompt
RenderPrompt(prompt_template, variables, strict) ==
    RenderLoop(prompt_template, variables, 1, strict)

\* The calls of render_prompt. The templates are up to MaxPieces pieces: the
\* placeholders of A and B, a bracketed word the pattern does not take for a
\* placeholder, a lone bracket, the end of a placeholder. The dicts have up
\* to two keys, in either order of insertion; the values are the empty
\* string, a word, a string that reads as B's placeholder, a number.
RenderCalls ==
    LET Pieces == {<<"<", "A", ">">>, <<"<", "B", ">">>, <<"<", "x", ">">>, <<"<">>,
                   <<"B", ">">>}
        Values == {[isStr |-> TRUE, text |-> <<>>],
                   [isStr |-> TRUE, text |-> <<"v">>],
                   [isStr |-> TRUE, text |-> <<"<", "B", ">">>],
                   [isStr |-> FALSE, text |-> <<"1">>]}
        Dicts == {vs \in SeqUpTo([key : {<<"A">>, <<"B">>}, value : Values], 2) :
                     \A i, j \in 1..Len(vs) : vs[i].key = vs[j].key => i = j}
    IN [prompt_template : {Concat(ps) : ps \in SeqUpTo(Pieces, MaxPieces)},
        variables : Dicts,
        strict : BOOLEAN]

\* One call of render_prompt.
Render ==
    /\ rOut.kind = "none"
    /\ \E call \in RenderCalls :
         /\ rIn' = call
         /\ rOut' = RenderPrompt(call.prompt_template, call.variables, call.strict)
    /\ UNCHANGED outsideRender

\* ------------------------------------------------------ resolution requests

\* str.upper()
Upper(s) ==
    [i \in 1..Len(s) |->
        IF \E k \in 1..Len(LowerChars) : LowerChars[k] = s[i]
        THEN UpperChars[CHOOSE k \in 1..Len(LowerChars) : LowerChars[k] = s[i]]
        ELSE s[i]]

\* The table_id of a request: for a table n the bare id, the file name,
\* either in capitals, the file name with the extension in capitals; or the
\* empty string, the extension alone, a name without extension.
RequestIds ==
    UNION {{TableId(n),
            TableId(n) \o S_csv,
            Upper(TableId(n)),
            Upper(TableId(n)) \o S_csv,
            TableId(n) \o Upper(S_csv),
            Upper(TableId(n) \o S_csv)} : n \in 1..(MaxTable + 1)}
        \cup {<<>>, S_csv, <<"n", "o", "t", "e", "s">>}

\* The table directory of the document: any of the extractor's files, the
\* last of them under a name in capitals, and a file without extension.
TableFilePool ==
    {Path(EACH_TABLE_DIR, Doc, TableCsvName(n)) : n \in 1..(MaxTable - 1)}
        \cup {Path(EACH_TABLE_DIR, Doc, Upper(TableId(MaxTable)) \o S_csv),
              Path(EACH_TABLE_DIR, Doc, <<"n", "o", "t", "e", "s">>)}

\* run_transform_pipeline up to its first stage: _resolve_table_csv, then
\* get_llm_config.
ResolveRun ==
    /\ rsPc = "idle"
    /\ \E fs \in SUBSET TableFilePool, doc \in {Doc, NoDoc}, id \in RequestIds,
          keyOk \in BOOLEAN :
         LET found == ResolveTableCsv(fs, doc, id)
         IN /\ rsFs' = fs
            /\ rsReq' = [doc |-> doc, table_id |-> id]
            /\ rsOut' = found
            /\ IF found = NotFound
               THEN rsPc' = "failed" /\ rsErr' = FileNotFoundException
               ELSE IF ~keyOk
               THEN rsPc' = "failed" /\ rsErr' = RawException
               ELSE rsPc' = "resolved" /\ rsErr' = Running
    /\ UNCHANGED rsStages
    /\ UNCHANGED outsideResolve

\* The first stage starts on the path resolved.
ResolveStage ==
    /\ rsPc = "resolved"
    /\ rsPc' = "staged"
    /\ rsStages' = rsStages + 1
    /\ UNCHANGED <<rsFs, rsReq, rsOut, rsErr>>
    /\ UNCHANGED outsideResolve

ResolveNext == ResolveRun \/ ResolveStage

\* ------------------------------------------------------ specifications

vars == <<pipeVars, convVars, markerVars, extractVars, renderVars, resolveVars>>

\* The extractor has written the document's tables; nothing runs yet.
Init ==
    /\ PipeInit
    /\ ConvInit
    /\ mIn = [gate |-> "ready", returncode |-> 0, stderr |-> "", canonical |-> "absent",
              flags |-> <<>>,
              candidates |-> <<>>]
    /\ mOut = MarkerRaised("none", "", FALSE, <<>>)
    /\ exPc = "idle"
    /\ mdLines = <<>>
    /\ rowFlags = <<>>
    /\ dfs = <<>>
    /\ created = <<>>
    /\ tableDir = {}
    /\ rIn = [prompt_template |-> <<>>, variables |-> <<>>, strict |-> TRUE]
    /\ rOut = [kind |-> "none", cause |-> "none", text |-> <<>>]
    /\ rsPc = "idle"
    /\ rsFs = {}
    /\ rsReq = [doc |-> Doc, table_id |-> <<>>]
    /\ rsOut = NotFound
    /\ rsErr = Running
    /\ rsStages = 0

\* Two orchestrator invocations on the tables of one document.
SpecPipeline == Init /\ [][PipeNext]_vars

\* One convert_pdf_and_process call.
SpecConvert == Init /\ [][ConvNext]_vars

\* One convert_pdf_and_process call in which a wait for the GPU that can take
\* a step takes it: nvidia-smi answers and time.sleep returns.
SpecConvertFair ==
    SpecConvert /\ WF_vars(GateQuick \/ GatePoll \/ GateRaise)

\* A call of run_marker_for_chunk.
SpecMarker == Init /\ [][MarkerCall]_vars

\* A call of TableExtractor.extract.
SpecExtract == Init /\ [][Extract]_vars

\* A call of render_prompt.
SpecRender == Init /\ [][Render]_vars

\* The start of a run_transform_pipeline call.
SpecResolve == Init /\ [][ResolveNext]_vars


\* ================================================================
\* Properties
\* ================================================================

IsPrefix(s, t) == Len(s) <= Len(t) /\ \A i \in 1..Len(s) : s[i] = t[i]

StagesStarted(r) == [i \in 1..Len(trace[r]) |-> trace[r][i].stage]

\* C1: in one invocation the stages start only in the order profiling,
\* prompt1, prompt2, prompt3, execute_cleaning, and each starts only when the
\* artifact the previous stage handed on (for profiling: the resolved table
\* file) exists on disk.
C1_StagesInOrderOnArtifacts ==
    \A r \in Runs :
        /\ IsPrefix(StagesStarted(r), Stages)
        /\ \A i \in 1..Len(trace[r]) : trace[r][i].prevOnDisk

\* A run went through all five stages and returned.
C1_Witness ==
    \E r \in Runs : pc[r] = "done" /\ StagesStarted(r) = Stages

\* C2: a stage whose result list is empty makes the invocation fail with the
\* ProcessingException naming that stage; an entry point that raises makes it
\* fail with the one naming execute_cleaning.
C2_EmptyResultNamesStage ==
    \A r \in Runs :
        /\ \A s \in StageSet :
               stageResult[r][s] = "empty"
                   => pc[r] = "failed" /\ outcome[r] = ProcessingException(s)
        /\ (/\ execInfo[r].ran
            /\ execInfo[r].env.csvReadOk
            /\ execInfo[r].env.loadOk
            /\ execInfo[r].scriptOnDisk
            /\ execInfo[r].env.hasEntry
            /\ execInfo[r].env.entry = "raises")
               => pc[r] = "failed" /\ outcome[r] = ProcessingException("execute_cleaning")

\* The entry point was reached and raised, and the run failed in
\* execute_cleaning, while the other run found no profile and failed in
\* profiling.
C2_Witness ==
    \E r, q \in Runs :
        /\ execInfo[r].ran
        /\ execInfo[r].env.csvReadOk /\ execInfo[r].env.loadOk /\ execInfo[r].scriptOnDisk
        /\ execInfo[r].env.hasEntry /\ execInfo[r].env.entry = "raises"
        /\ outcome[r] = ProcessingException("execute_cleaning")
        /\ stageResult[q]["profiling"] = "empty"
        /\ outcome[q] = ProcessingException("profiling")

StageFailed(r, i) == stageResult[r][Stages[i]] \in {"empty", "raised", "llm_raised"}

\* C3: in one invocation no stage starts twice, no stage calls the
\* text-generation service more than once, and after a stage that raised or
\* yielded nothing no later stage starts.
C3_LinearNoRetry ==
    \A r \in Runs :
        /\ \A i, j \in 1..Len(trace[r]) : trace[r][i].stage = trace[r][j].stage => i = j
        /\ \A s \in StageSet : llmCalls[r][s] <= 1
        /\ \A i \in 1..Len(Stages) :
               StageFailed(r, i)
                   => /\ pc[r] = "failed"
                      /\ Len(trace[r]) = i
                      /\ \A j \in (i + 1)..Len(Stages) :
                             /\ stageResult[r][Stages[j]] = "notrun"
                             /\ llmCalls[r][Stages[j]] = 0

\* The strategy stage's service call raised after the analysis stage
\* succeeded: the run stopped there, one call per stage made.
C3_Witness ==
    \E r \in Runs :
        /\ stageResult[r]["prompt2"] = "llm_raised"
        /\ llmCalls[r]["prompt1"] = 1 /\ llmCalls[r]["prompt2"] = 1
        /\ pc[r] = "failed"

\* The id n of the table a run resolved.
TableNoOf(r) == CHOOSE n \in 1..MaxTable : csvPath[r][1].name = TableCsvName(n)

\* C4: a run on table_<n>.csv persists the profile at table_<n>_profile.json,
\* the analysis at prompt1_table<n>.json and the strategy at
\* prompt2_table<n>.md.
C4_ArtifactNamesCarryTableId ==
    \A r \in Runs :
        csvPath[r] # <<>> =>
            LET n == TableNoOf(r)
                d == csvPath[r][1].doc
            IN /\ profilePaths[r] # <<>> =>
                      profilePaths[r][1] =
                          Path(PROFILE_RAW_DF_DIR, d, S_table_ \o ToDigits(n) \o S_profile \o S_json)
               /\ prompt1Paths[r] # <<>> =>
                      prompt1Paths[r][1] =
                          Path(PROMPT1_PROFILE_DIR, d, S_prompt1_table \o ToDigits(n) \o S_json)
               /\ prompt2Paths[r] # <<>> =>
                      prompt2Paths[r][1] =
                          Path(PROMPT2_PROMPT1_DIR, d, S_prompt2_table \o ToDigits(n) \o S_md)

\* C5: two runs on different tables of one document write disjoint sets of
\* files.
C5_DisjointWrites ==
    \A r, q \in Runs :
        (/\ r # q
         /\ csvPath[r] # <<>> /\ csvPath[q] # <<>>
         /\ csvPath[r] # csvPath[q])
            => written[r] \cap written[q] = {}

\* C6: when the text-generation call of prompt1 or prompt2 raises, the unit
\* fails and the error names that stage.
C6_LlmFailureNamesStage ==
    \A r \in Runs : \A s \in {"prompt1", "prompt2"} :
        stageResult[r][s] = "llm_raised"
            => pc[r] = "failed" /\ outcome[r].stage = s

IsContent(cause) == cause \in {"canonical", "discovered"}

\* C8: whichever pages fail to convert, every page gets its entry in page
\* order, a placeholder exactly where the conversion failed; the call fails
\* only for a reason other than a page's conversion, and when it returns the
\* combined document has nPages sections in page order and the count is
\* nPages.
C8_PageFailuresAbsorbed ==
    /\ cpc \in {"gate", "marker", "combine", "done"} =>
           /\ Len(contents) = (IF cpc \in {"combine", "done"} THEN nPages ELSE idx - 1)
           /\ \A i \in 1..Len(contents) :
                  /\ contents[i].page = i
                  /\ contents[i].kind = "placeholder" <=> ~IsContent(contents[i].cause)
                  /\ contents[i].kind = "content" <=> IsContent(contents[i].cause)
    /\ cpc = "done" =>
           /\ nPages >= 1
           /\ retCount = nPages
           /\ Len(combined) = 1
           /\ combined[1].count = nPages
           /\ Len(combined[1].sections) = nPages
           /\ \A i \in 1..nPages :
                  /\ combined[1].sections[i].heading = Pad4(i)
                  /\ combined[1].sections[i].body = contents[i].kind
    /\ cpc = "failed" => cerror \in {"render", "no_images", "unexpected", "save"}

\* Page 1 failed to convert, page 2 was converted after it, and the call
\* returned.
C8_Witness ==
    /\ cpc = "done"
    /\ nPages >= 2
    /\ contents[1].kind = "placeholder"
    /\ contents[2].kind = "content"
    /\ retCount = nPages

\* C9: a gate timeout while a page waits makes convert_pdf_and_process fail;
\* no placeholder stands for it and no later page waits on the gate.
C9_GateTimeoutFatal ==
    (\E i \in 1..Len(contents) : contents[i].cause = "gate_timeout") => cpc = "failed"

\* temperature < threshold and total - used >= min_free, for every unit
ReadyByDefinition(units) ==
    \A i \in 1..Len(units) :
        /\ units[i].temp < GPU_TEMP_THRESHOLD_C
        /\ units[i].total - units[i].used >= GPU_MEM_FREE_MB

\* C10: _gpu_state_ok is true exactly when every unit the query reported is
\* below the temperature threshold and has min_free memory free; a wait whose
\* first poll sees no unit returns on that poll, without sleeping.
C10_GateReadyIff ==
    /\ polls > 0 => (lastOk <=> ReadyByDefinition(QueryNvidiaSmi(lastRaw)))
    /\ firstEmpty => /\ cpc = "marker"
                     /\ polls = 1
                     /\ sleeps = 0
                     /\ elapsed = 0
                     /\ lastOk

\* nvidia-smi is unavailable, the thresholds notwithstanding, and the wait
\* returned at once.
C10_Witness ==
    /\ cpc = "marker"
    /\ firstEmpty
    /\ lastRaw.status = "missing"
    /\ polls = 1

\* C11: a call whose executable exits non-zero raises MarkerError carrying the
\* captured stderr and returns no path, whatever is at the canonical path or
\* discoverable elsewhere, and the discovery is not attempted.
C11_NonZeroExitFatal ==
    (mIn.gate = "ready" /\ mIn.returncode # 0)
        => /\ mOut.kind = "MarkerError"
           /\ mOut.cause = "exit_nonzero"
           /\ mOut.stderr = mIn.stderr
           /\ mOut.path = <<>>
           /\ ~mOut.discovery

\* The executable was killed by a signal having written its output at the
\* canonical path, with a .md file discoverable too, and the call raised
\* with the stderr.
C11_Witness ==
    /\ mIn.gate = "ready"
    /\ mIn.returncode < 0
    /\ mIn.canonical = "file"
    /\ Len(mIn.candidates) >= 1
    /\ mIn.candidates[1].kind.type = "file" /\ mIn.candidates[1].kind.md
    /\ mIn.stderr = "CUDA out of memory"
    /\ mOut.kind = "MarkerError"
    /\ mOut.stderr = "CUDA out of memory"

\* C12: when convert_pdf_and_process fails before the combined text is
\* produced (no page, a page that fails to render after earlier ones were
\* written, an unexpected exception) and keep_images is false, every image
\* the renderer wrote is gone, but for those whose unlink raised.
C12_FailureCleansUpImages ==
    (/\ cpc = "failed"
     /\ cerror \in {"no_images", "render", "unexpected"}
     /\ ~keep)
        => images \subseteq unlinkFailed

\* C13: with keep_images true no image the renderer wrote is ever deleted,
\* whether the call returns or fails; with keep_images false the images are
\* all there until the combined text is persisted, and a call that returned
\* has deleted them but for those whose unlink raised.
C13_ImagesDeletedOnlyUnlessKept ==
    /\ keep => images = produced
    /\ (~keep /\ cpc \in {"gate", "marker", "combine"}) => images = produced
    /\ (~keep /\ cpc = "done") =>
           /\ Len(combined) = 1
           /\ images = unlinkFailed

\* C14: the combined document of an n-page input has the title line, the
\* line reporting n pages, and for each page k from 1 to n, in order, the
\* heading "## Page k", the page's content and a rule.
C14_HeadingsCarryPageNumber ==
    cpc = "done" =>
        /\ combined[1].title = "Document"
        /\ combined[1].count = nPages
        /\ Len(combined[1].sections) = nPages
        /\ \A k \in 1..nPages :
               /\ combined[1].sections[k].heading = ToDigits(k)
               /\ combined[1].sections[k].body = contents[k].kind
               /\ combined[1].sections[k].rule

\* After trimming, the line begins with a pipe and ends with a pipe.
BeginsAndEndsWithPipe(line) ==
    LET t == Strip(line)
    IN t # <<>> /\ t[1] = "|" /\ t[Len(t)] = "|"

\* The cells a pipe-delimited line has: one fewer than its pipes.
Arity(line) == Cardinality({i \in 1..Len(line) : line[i] = "|"}) - 1

\* A separator line: dashes between the pipes.
IsSeparatorLine(line) ==
    /\ BeginsAndEndsWithPipe(line)
    /\ Arity(line) >= 1
    /\ \A i \in 1..Len(line) : line[i] \in {"|", "-", " "}
    /\ \E i \in 1..Len(line) : line[i] = "-"

\* A well-formed table text: a header line, one separator line, then data
\* lines, one at least, each with the header's number of cells.
WellFormed(lines) ==
    /\ Len(lines) >= 3
    /\ \A i \in 1..Len(lines) :
           /\ BeginsAndEndsWithPipe(lines[i])
           /\ Arity(lines[i]) >= 1
           /\ Arity(lines[i]) = Arity(lines[1])
           /\ IsSeparatorLine(lines[i]) <=> i = 2

\* C15: of a well-formed table text extract returns one table whose rows are
\* the data lines, as many and in their order; and in every table extract
\* returns, of whatever document, each row has as many cells as the header.
C15_RowsOfWellFormedTable ==
    exPc = "done" =>
        /\ WellFormed(mdLines) =>
               /\ Len(dfs) = 1
               /\ Len(dfs[1].rows) = Len(mdLines) - 2
               /\ \A k \in 1..(Len(mdLines) - 2) : dfs[1].rows[k] = Cells(mdLines[k + 2])
        /\ \A t \in 1..Len(dfs) : \A k \in 1..Len(dfs[t].rows) :
               Len(dfs[t].rows[k]) = Len(dfs[t].headers)

\* C16: the loop takes a line for a table row exactly when the line, trimmed,
\* begins with a pipe and ends with a pipe.
C16_RowCandidateIffPipes ==
    exPc = "done" =>
        \A i \in 1..Len(mdLines) : rowFlags[i] <=> BeginsAndEndsWithPipe(mdLines[i])

\* C17: the tables extract found are written as table_1.csv ... table_k.csv
\* in the order found, each with a data row at least; a block that gave no
\* table takes no number.
C17_TableIdsContiguous ==
    exPc = "done" =>
        /\ Len(created) = Len(dfs)
        /\ \A i \in 1..Len(dfs) :
               /\ created[i].name = S_table_ \o ToDigits(i) \o S_csv
               /\ created[i].table = dfs[i]
               /\ Len(dfs[i].rows) >= 1

\* A header alone, prose, then two tables apart: the discarded block took
\* no number, the tables are table_1.csv and table_2.csv in their order.
C17_Witness ==
    /\ exPc = "done"
    /\ mdLines = <<Line("a"), Line("text"), Line("a"), Line("sep"), Line("b"), Line("text"),
                   Line("ab"), Line("sep2"), Line("ba"), Line("a"), Line("ab")>>
    /\ Len(created) = 2
    /\ created[1].table.headers = <<<<"a">>>>
    /\ created[2].table.headers = <<<<"a">>, <<"b">>>>
    /\ created[2].name = S_table_ \o <<"2">> \o S_csv

\* A table as pipe-delimited text: the header line, a separator line, a line
\* per row.
RECURSIVE RowText(_)
RowText(cells) ==
    IF cells = <<>> THEN <<>>
    ELSE <<" ">> \o Head(cells) \o <<" ", "|">> \o RowText(Tail(cells))

Serialize(table) ==
    <<<<"|">> \o RowText(table.headers)>>
        \o <<<<"|">> \o Concat([i \in 1..Len(table.headers) |-> <<"-", "-", "-", "|">>])>>
        \o [k \in 1..Len(table.rows) |-> <<"|">> \o RowText(table.rows[k])]

\* C18: a table extract returned, written out as pipe-delimited text and
\* extracted again, comes back as one table with the same header and rows.
C18_RoundTrip ==
    exPc = "done" =>
        \A t \in 1..Len(dfs) : ExtractTablesAsDataframes(Serialize(dfs[t])) = <<dfs[t]>>

\* A two-column table whose cells had blanks around them came back.
C18_Witness ==
    /\ exPc = "done"
    /\ Len(dfs) >= 1
    /\ dfs[1].headers = <<<<"a">>, <<"b">>>>
    /\ \E k \in 1..Len(dfs[1].rows) : dfs[1].rows[k] = <<<<"b">>, <<"a">>>>
    /\ ExtractTablesAsDataframes(Serialize(dfs[1])) = <<dfs[1]>>

\* The template with every variable put in, no check made.
Substituted(in) == RenderPrompt(in.prompt_template, in.variables, FALSE).text

\* C19: a strict render_prompt raises exactly when the placeholder of a
\* variable supplied does not occur in the template, or a token <[A-Z0-9_]+>
\* is left in the text after all the substitutions; otherwise it returns the
\* substituted text.
C19_StrictRenderFailsIff ==
    (rOut.kind # "none" /\ rIn.strict) =>
        LET absent == \E i \in 1..Len(rIn.variables) :
                          ~Contains(rIn.prompt_template, Placeholder(rIn.variables[i].key))
            left == HasLeftovers(Substituted(rIn))
        IN /\ rOut.kind = "PromptRenderError" <=> (absent \/ left)
           /\ rOut.kind = "ok" => rOut.text = Substituted(rIn)

\* The id a request names: the stem when it is given as a .csv file name.
RequestedStem(table_id) ==
    IF Lower(Suffix(table_id)) = S_csv THEN Stem(table_id) ELSE table_id

\* The table files of the document whose stem is the id, whatever the case.
Matching(fs, doc, table_id) ==
    {p \in fs : /\ p.dir = EACH_TABLE_DIR
                /\ p.doc = doc
                /\ Suffix(p.name) = S_csv
                /\ Lower(Stem(p.name)) = Lower(RequestedStem(table_id))}

\* C20: resolution returns a table file of the document's directory whose
\* stem is the requested id, whatever the case, the same for the bare id and
\* for the file name; without the directory or such a file it raises
\* FileNotFoundException and no stage starts.
C20_ResolutionByStem ==
    rsPc # "idle" =>
        LET m == Matching(rsFs, rsReq.doc, rsReq.table_id)
        IN /\ m # {} =>
                  /\ rsOut # NotFound
                  /\ rsOut[1] \in m
                  /\ ResolveTableCsv(rsFs, rsReq.doc, RequestedStem(rsReq.table_id)) = rsOut
                  /\ ResolveTableCsv(rsFs, rsReq.doc, RequestedStem(rsReq.table_id) \o S_csv) = rsOut
           /\ m = {} =>
                  /\ rsOut = NotFound
                  /\ rsPc = "failed"
                  /\ rsErr = FileNotFoundException
                  /\ rsStages = 0


\* C21: the Marker executable is run for a page only when the wait for the
\* GPU of that same call has ended ready (its last poll found the state ok),
\* one page at a time; and a page whose wait timed out fails with the
\* timeout's error without the executable having been run for it.
C21_GateBeforeExecutable ==
    /\ [](/\ cpc = "marker" => (lastOk /\ polls >= 1)
          /\ \A i \in 1..Len(contents) :
                contents[i].cause = "gate_timeout"
                    => /\ contents[i].kind = "placeholder"
                       /\ \A j \in 1..Len(launched) : launched[j] # contents[i].page)
    /\ [][launched' # launched
             => /\ cpc = "marker" /\ lastOk /\ polls >= 1
                /\ launched' = Append(launched, idx)]_vars

\* The wait of page 1 timed out after unready polls, the wait of page 2
\* ended ready and the executable was run for page 2 only.
C21_Witness ==
    /\ Len(contents) = 2
    /\ contents[1].cause = "gate_timeout"
    /\ contents[2].kind = "content"
    /\ launched = <<2>>


\* C22: every wait for the GPU ends, returned or raised. It returns on the
\* first poll that finds the state ok, and only on such a poll: while it goes
\* on no poll has found the state ok. It raises only on a poll that found the
\* state not ok with more than the timeout elapsed, and once more than the
\* timeout has elapsed the next poll ends the wait one way or the other.
C22_WaitTerminates ==
    /\ [](/\ (cpc = "marker") => (lastOk /\ polls >= 1)
          /\ (cpc = "gate" /\ polls > 0) => ~lastOk
          /\ gatePc = "timed_out" => (elapsed > GPU_WAIT_TIMEOUT_SEC /\ ~lastOk))
    /\ [][(cpc = "gate" /\ polls' = polls + 1)
             => /\ lastOk' => cpc' = "marker"
                /\ (elapsed > GPU_WAIT_TIMEOUT_SEC /\ gatePc = "loop")
                      => (cpc' = "marker" \/ gatePc' = "timed_out")]_vars
    /\ \A p \in 1..MaxPages :
          (cpc = "gate" /\ idx = p)
              ~> \/ cpc = "marker" /\ idx = p
                 \/ \E i \in 1..Len(contents) :
                       contents[i].page = p /\ contents[i].cause = "gate_timeout"

\* A wait that slept until more than the timeout had elapsed and whose next
\* poll found the state not ok.
C22_Witness ==
    /\ cpc = "gate"
    /\ gatePc = "timed_out"
    /\ sleeps > GPU_WAIT_TIMEOUT_SEC \div GPU_POLL_INTERVAL_SEC
    /\ polls = sleeps + 2
    /\ ~lastOk


\* C23: the pages are handed to the conversion in ascending order from page
\* 1, each once; a page is handed over only when every page before it has
\* its entry in contents, so at most one page is under conversion; the
\* executable is run at most once per page, for the page under conversion;
\* and a call that returns has handed over every page.
C23_PagesSequential ==
    /\ [](/\ \A i \in 1..Len(submitted) : submitted[i] = i
          /\ \A i \in 1..Len(contents) : contents[i].page = i
          /\ Len(contents) <= Len(submitted)
          /\ Len(submitted) <= Len(contents) + 1
          /\ Len(submitted) <= nPages
          /\ cpc \in {"gate", "marker"}
                => (Len(submitted) = Len(contents) + 1 /\ idx = Len(submitted))
          /\ cpc \in {"combine", "done"}
                => (Len(submitted) = nPages /\ Len(contents) = nPages)
          /\ \A i, j \in 1..Len(launched) : i < j => launched[i] < launched[j])
    /\ [][launched' # launched
             => launched' = Append(launched, submitted[Len(submitted)])]_vars

\* Page 1 failed, its placeholder is in contents, and page 2, the last page,
\* handed over after it, is waiting for the GPU.
C23_Witness ==
    /\ nPages = 2
    /\ submitted = <<1, 2>>
    /\ Len(contents) = 1
    /\ contents[1].kind = "placeholder"
    /\ cpc = "gate"
    /\ polls > 0


\* Whether the discovery finds an output through a candidate, and which: a
\* .md file itself; for a directory a .md file directly in it, and otherwise
\* one a level below.
OutputThrough(c) ==
    IF c.kind.type = "file"
    THEN IF c.kind.md THEN <<[via |-> c.path, depth |-> 0, isFile |-> TRUE]>> ELSE <<>>
    ELSE IF c.kind.inside = "file"
    THEN <<[via |-> c.path, depth |-> 1, isFile |-> TRUE]>>
    ELSE IF c.kind.below = "file"
    THEN <<[via |-> c.path, depth |-> 2, isFile |-> TRUE]>>
    ELSE <<>>

\* C24: a call whose executable exits with zero and finds nothing at the
\* canonical path goes through the discovery; it returns the output found
\* through a candidate such that no candidate modified later gives one, and
\* raises MarkerError if no candidate gives one.
C24_DiscoveryNewestFirst ==
    (mIn.gate = "ready" /\ mIn.returncode = 0 /\ mIn.canonical = "absent"
         /\ (mOut.cause # "none" \/ mOut.kind = "path"))
        => LET cs == mIn.candidates
               Gives == {i \in 1..Len(cs) : OutputThrough(cs[i]) # <<>>}
           IN /\ mOut.discovery
              /\ Gives = {} => (mOut.kind = "MarkerError" /\ mOut.cause = "not_found")
              /\ Gives # {}
                    => /\ mOut.kind = "path"
                       /\ \E i \in Gives :
                             /\ mOut.path = OutputThrough(cs[i])
                             /\ \A k \in Gives : cs[k].mtime <= cs[i].mtime


\* The flags at the places K, in their order.
RECURSIVE Restrict(_, _, _)
Restrict(flags, K, i) ==
    IF i > Len(flags) THEN <<>>
    ELSE IF i \in K THEN <<flags[i]>> \o Restrict(flags, K, i + 1)
    ELSE Restrict(flags, K, i + 1)

\* C26: the command of a call that ran the executable is the executable, the
\* chunk path, --output_dir and the output directory, then the flags of
\* MARKER_FLAGS in their order without the --output_dir tokens and their
\* arguments: no --output_dir token is kept, the token after an --output_dir
\* token that is a flag is not kept, and every token that neither is nor
\* follows an --output_dir token is kept; so --output_dir occurs once, before
\* the output directory.
C26_CommandLine ==
    mOut.cmd # <<>>
        => LET flags == mIn.flags
               cmd == mOut.cmd
           IN /\ Len(cmd) >= 4
              /\ SubSeq(cmd, 1, 4)
                    = <<"marker_single", "chunk_path", "--output_dir", "output_dir">>
              /\ \A i \in 1..Len(cmd) : cmd[i] = "--output_dir" => i = 3
              /\ \E K \in SUBSET (1..Len(flags)) :
                    /\ SubSeq(cmd, 5, Len(cmd)) = Restrict(flags, K, 1)
                    /\ \A i \in 1..Len(flags) :
                          /\ flags[i] = "--output_dir" => i \notin K
                          /\ (flags[i] # "--output_dir"
                                 /\ (i = 1 \/ flags[i - 1] # "--output_dir"))
                                => i \in K
                          /\ (i > 1 /\ flags[i - 1] = "--output_dir"
                                 /\ (i = 2 \/ flags[i - 2] # "--output_dir"))
                                => i \notin K

\* MARKER_FLAGS names an output directory of its own before another flag;
\* the command has the call's output directory and the other flag only.
C26_Witness ==
    /\ mIn.flags = <<"--output_dir", "/x", "--force_ocr">>
    /\ mOut.cmd = <<"marker_single", "chunk_path", "--output_dir", "output_dir",
                    "--force_ocr">>


\* The table blocks of a document: a row candidate joins the current block, a
\* blank line leaves it open, any other line closes it.
RECURSIVE BlocksOf(_, _, _, _)
BlocksOf(lines, i, blocks, current) ==
    IF i > Len(lines) THEN (IF current = <<>> THEN blocks ELSE Append(blocks, current))
    ELSE IF BeginsAndEndsWithPipe(lines[i])
         THEN BlocksOf(lines, i + 1, blocks, Append(current, lines[i]))
    ELSE IF Strip(lines[i]) = <<>> THEN BlocksOf(lines, i + 1, blocks, current)
    ELSE BlocksOf(lines, i + 1,
                  IF current = <<>> THEN blocks ELSE Append(blocks, current), <<>>)

\* The tables of blocks, each block parsed on its own.
RECURSIVE TablesOf(_)
TablesOf(blocks) ==
    IF blocks = <<>> THEN <<>>
    ELSE TablesOf(SubSeq(blocks, 1, Len(blocks) - 1)) \o
            LET df == ParseMarkdownTable(blocks[Len(blocks)])
            IN IF df # <<>> /\ Len(df[1].rows) > 0 THEN df ELSE <<>>

\* C25: the tables extract returns are those of the document's blocks, where
\* row candidates with only blank lines between them are one block, with the
\* first of them for header, and a line that is neither blank nor a row
\* candidate ends the block, the row candidates after it being another table.
C25_BlankLinesKeepBlock ==
    exPc = "done" => dfs = TablesOf(BlocksOf(mdLines, 1, <<>>, <<>>))


\* C27: a run whose run_cleaning_script call returned nothing has written
\* neither the cleaned table nor its log, nor the raw table; the cleaned
\* table and the log of a run are both written or neither, and only by a
\* call that returned the cleaned table's path.
C27_NoResultNoFiles ==
    \A r \in Runs :
        execInfo[r].ran =>
            LET csv == csvPath[r][1]
                cleaned == CleanedPathOf(csv.doc, csv)
                log == LogPathOf(csv.doc, csv)
            IN /\ csv \notin written[r]
               /\ cleaned \in written[r] <=> log \in written[r]
               /\ cleaned \in written[r] => execInfo[r].ret = <<cleaned>>
               /\ execInfo[r].ret = <<>>
                     => (cleaned \notin written[r] /\ log \notin written[r])


\* C28: a call of render_prompt ends as it would have ended with the same
\* variables supplied in any other order: the same text, or the same failure
\* in strict mode.
C28_RenderOrderIndependent ==
    rOut.kind # "none" =>
        LET n == Len(rIn.variables)
            Orders == {f \in [1..n -> 1..n] : \A i, j \in 1..n : f[i] = f[j] => i = j}
        IN \A f \in Orders :
              LET other == RenderPrompt(rIn.prompt_template,
                                        [i \in 1..n |-> rIn.variables[f[i]]], rIn.strict)
              IN other.kind = rOut.kind /\ other.text = rOut.text


\* C29: whatever the document and the table id, resolution raises
\* FileNotFoundException or returns a file of the document's table directory
\* with the .csv extension: never the directory itself, an entry of another
\* extension, or a path of another place.
C29_ResolvesToCsvInDocDir ==
    (rsPc # "idle" /\ rsOut # NotFound)
        => /\ rsOut[1] \in rsFs
           /\ rsOut[1].dir = EACH_TABLE_DIR
           /\ rsOut[1].doc = rsReq.doc
           /\ rsOut[1].name # <<>>
           /\ Suffix(rsOut[1].name) = S_csv


\* C30: after any calls of extract for the document, the files of its table
\* directory are those the last call wrote, the tables it found: none is
\* left of an earlier call that found more.
C30_TableDirIsLatestRun ==
    exPc = "done" => tableDir = Range(created)

====
